---------------------------- MODULE Spec2Model ----------------------------
(***************************************************************************)
(* Model of src/pubVerifToken.ts: the Privacy Pass "Blind RSA (2048)"      *)
(* publicly verifiable token type.                                         *)
(*                                                                         *)
(*  - the wire codec (TokenRequest, TokenResponse) on Uint8Array values,   *)
(*    which are views [buffer, byteOffset, length] onto an ArrayBuffer;    *)
(*  - the Client state machine (createTokenRequest / finalize) with its    *)
(*    await points, the Issuer, verifyToken and fetchPublicVerifToken.     *)
(***************************************************************************)
EXTENDS Integers, Sequences, FiniteSets, TLC

(***************************************************************************)
(* TokenType (pubVerifToken.ts:21-29)                                      *)
(***************************************************************************)
TokenTypeValue == 2

Nk == 256

Nid == 32

\* Bounds of the model.
MaxPad == 1

Min(a, b) == IF a < b THEN a ELSE b

(***************************************************************************)
(* Uint8Array: a view of `length` bytes starting `byteOffset` bytes into   *)
(* the ArrayBuffer `buffer` (a sequence of bytes 0..255).                  *)
(***************************************************************************)
\* new Uint8Array(arrayBuffer) / a freshly allocated array: offset 0, whole buffer.
FromBytes(s) == [buffer |-> s, byteOffset |-> 0, length |-> Len(s)]

\* The bytes the view denotes: a[0], ..., a[a.length - 1].
View(a) == SubSeq(a.buffer, a.byteOffset + 1, a.byteOffset + a.length)

\* ArrayBuffer.prototype.slice(begin, end) with 0 <= begin <= end: clamps to the buffer.
BufferSlice(buf, begin, end) == SubSeq(buf, Min(begin, Len(buf)) + 1, Min(end, Len(buf)))

\* Uint8Array.prototype.slice(0, end): a fresh array with the first bytes of the view.
ArraySlice(a, end) == FromBytes(SubSeq(View(a), 1, Min(end, a.length)))

Zeros(n) == [i \in 1..n |-> 0]

(***************************************************************************)
(* Results of operations that may throw.                                   *)
(***************************************************************************)
NoVal == [none |-> TRUE]

Ok(v) == [ok |-> TRUE, err |-> "", val |-> v]

Throw(e) == [ok |-> FALSE, err |-> e, val |-> NoVal]

ErrBlindedMsgSize == "invalid blinded message size"

ErrBlindSigSize == "invalid blind signature size"

ErrTypeMismatch == "mismatch of token type"

ErrNoPendingRequest == "no token request was created yet."

\* DataView.getUint16 / getUint8 past the end of the buffer.
ErrRange == "RangeError: Offset is outside the bounds of the DataView"

\* The spec's InvalidLength error kind.
InvalidLength(r) == ~r.ok /\ r.err \in {ErrBlindedMsgSize, ErrBlindSigSize}

TypeMismatch(r) == ~r.ok /\ r.err = ErrTypeMismatch

(***************************************************************************)
(* util.joinAll: the concatenation of a list of ArrayBuffers.              *)
(***************************************************************************)
RECURSIVE joinAll(_)
joinAll(output) == IF output = <<>> THEN <<>> ELSE Head(output) \o joinAll(Tail(output))

(***************************************************************************)
(* class TokenRequest                                                      *)
(***************************************************************************)
NewTokenRequest_unchecked(tokenKeyId, blindedMsg) ==
    Ok([tokenType |-> TokenTypeValue, tokenKeyId |-> tokenKeyId, blindedMsg |-> blindedMsg])

NewTokenRequest(tokenKeyId, blindedMsg) ==
    IF blindedMsg.length # Nk
    THEN Throw(ErrBlindedMsgSize)
    ELSE Ok([tokenType |-> TokenTypeValue, tokenKeyId |-> tokenKeyId, blindedMsg |-> blindedMsg])

\* The DataView is built on bytes.buffer: reads start at the beginning of the
\* underlying ArrayBuffer, whatever bytes.byteOffset and bytes.length are.
TokenRequest_deserialize(bytes) ==
    LET input == bytes.buffer IN
    IF Len(input) < 2 THEN Throw(ErrRange)
    ELSE LET type == input[1] * 256 + input[2] IN
         IF type # TokenTypeValue THEN Throw(ErrTypeMismatch)
         ELSE IF Len(input) < 3 THEN Throw(ErrRange)
         ELSE LET tokenKeyId == input[3]
                  blindedMsg == FromBytes(BufferSlice(input, 3, 3 + Nk))
              IN  NewTokenRequest(tokenKeyId, blindedMsg)

\* setUint16 (big-endian) and setUint8 wrap modulo 2^16 and 2^8; the third part
\* pushed is this.blindedMsg.buffer, the whole underlying ArrayBuffer.
TokenRequest_serialize(x) ==
    FromBytes(joinAll(<< << (x.tokenType % 65536) \div 256, x.tokenType % 256 >>,
                         << x.tokenKeyId % 256 >>,
                         x.blindedMsg.buffer >>))

(***************************************************************************)
(* class TokenResponse                                                     *)
(***************************************************************************)
NewTokenResponse(blindSig) ==
    IF blindSig.length # Nk
    THEN Throw(ErrBlindSigSize)
    ELSE Ok([blindSig |-> blindSig])

TokenResponse_deserialize(bytes) == NewTokenResponse(ArraySlice(bytes, Nk))

\* new Uint8Array(typedArray) copies the elements of the view.
TokenResponse_serialize(y) == FromBytes(View(y.blindSig))

(***************************************************************************)
(* The platform cryptography capability (crypto.subtle, crypto.getRandomValues) *)
(* and the blind-RSA capability (SUITES.SHA384.PSS.Deterministic()), as an      *)
(* ideal signature scheme on byte strings.  A CryptoKey is                      *)
(* [type, id, kLen]: kLen is the byte length of the RSA modulus.                *)
(***************************************************************************)
PublicKey(id, kLen) == [type |-> "public", id |-> id, kLen |-> kLen]

PrivateKey(id, kLen) == [type |-> "private", id |-> id, kLen |-> kLen]

\* Algorithm identifiers of a SubjectPublicKeyInfo.
OidRsaEncryption == 1

OidRsaPss == 10

\* crypto.subtle.exportKey('spki', key): WebCrypto writes the rsaEncryption identifier.
ExportSpki(key) == FromBytes(<<48, OidRsaEncryption, key.id, key.kLen \div 256>>)

\* The same key as found in a challenge header: encoded with the RSASSA-PSS identifier.
PssSpki(key) == FromBytes(<<48, OidRsaPss, key.id, key.kLen \div 256>>)

WellFormedSpki(b) ==
    /\ Len(b) = 4
    /\ b[1] = 48
    /\ b[2] \in {OidRsaEncryption, OidRsaPss}
    /\ b[3] \in 1..3
    /\ b[4] \in 0..2

\* util.convertPSSToEnc: parse the SubjectPublicKeyInfo and re-encode it with the
\* rsaEncryption algorithm identifier.
convertPSSToEnc(keyRSAPSSEncSpki) ==
    LET b == View(keyRSAPSSEncSpki) IN
    IF ~WellFormedSpki(b) THEN Throw("bad parsing")
    ELSE Ok(FromBytes(<<b[1], OidRsaEncryption, b[3], b[4]>>))

\* crypto.subtle.importKey('spki', bytes, {name: 'RSA-PSS', hash: 'SHA-384'}, true, ['verify'])
ImportSpki(spki) ==
    LET b == View(spki) IN
    IF WellFormedSpki(b) /\ b[2] = OidRsaEncryption /\ b[4] > 0
    THEN Ok(PublicKey(b[3], 256 * b[4]))
    ELSE Throw("DataError")

RECURSIVE Weight(_, _)
Weight(s, j) == IF j > Len(s) THEN Len(s) ELSE (j * s[j] + Weight(s, j + 1)) % 256

\* crypto.subtle.digest('SHA-256', data): 32 bytes determined by the data.
SHA256(data) == LET w == Weight(View(data), 1) IN FromBytes([i \in 1..Nid |-> (w + i) % 256])

\* blindRSA.blind(publicKey, msg) with its random choice r: {blindedMsg, inv}, each of
\* the modulus length.
RsaBlind(publicKey, msg, r) ==
    [blindedMsg |-> FromBytes(<<1, publicKey.id, r>> \o View(msg)
                              \o Zeros(publicKey.kLen - 3 - msg.length)),
     inv |-> FromBytes(<<r>> \o Zeros(publicKey.kLen - 1))]

\* blindRSA.blindSign(privateKey, blindedMsg): deterministic.
RsaBlindSign(privateKey, blindedMsg) ==
    IF blindedMsg.length # privateKey.kLen THEN Throw("unexpected input size")
    ELSE Ok(FromBytes(<<2, privateKey.id>> \o SubSeq(View(blindedMsg), 1, privateKey.kLen - 2)))

\* The RSA-PSS signature of msg under the key pair of publicKey.
RsaSignature(publicKey, msg) ==
    FromBytes(<<3, publicKey.id>> \o View(msg) \o Zeros(publicKey.kLen - 2 - msg.length))

\* blindRSA.finalize(publicKey, msg, blindSig, inv): unblinds and verifies; rejects
\* unless blindSig is the blind signature, by the key pair of publicKey, of msg
\* blinded with inv.
RsaFinalize(publicKey, msg, blindSig, inv) ==
    IF blindSig.length # publicKey.kLen THEN Throw("unexpected input size")
    ELSE LET r == View(inv)[1]
             expected == RsaBlindSign(PrivateKey(publicKey.id, publicKey.kLen),
                                      RsaBlind(publicKey, msg, r).blindedMsg)
         IN  IF expected.ok /\ View(blindSig) = View(expected.val)
             THEN Ok(RsaSignature(publicKey, msg))
             ELSE Throw("invalid signature")

\* crypto.subtle.verify({name: 'RSA-PSS', saltLength: 48}, publicKey, signature, data)
RsaPssVerify(publicKey, signature, data) == View(signature) = View(RsaSignature(publicKey, data))

(***************************************************************************)
(* httpAuthScheme: TokenChallenge, PrivateToken, TokenPayload, Token       *)
(***************************************************************************)
\* TextEncoder on the issuer names of the model.
NameBytes(name) == IF name = "i1" THEN <<105, 49>> ELSE IF name = "i2" THEN <<105, 50>> ELSE <<120>>

NewTokenChallenge(tokenType, issuerName, redemptionContext, originInfo) ==
    [tokenType |-> tokenType, issuerName |-> issuerName,
     redemptionContext |-> redemptionContext, originInfo |-> originInfo]

\* type | issuer name, length-prefixed | redemption context, length-prefixed | origin list
TokenChallenge_serialize(ch) ==
    FromBytes(<<ch.tokenType \div 256, ch.tokenType % 256>>
              \o <<0, Len(NameBytes(ch.issuerName))>> \o NameBytes(ch.issuerName)
              \o <<ch.redemptionContext.length>> \o View(ch.redemptionContext)
              \o <<0, 0>>)

NewPrivateToken(challenge, tokenKey, maxAge) ==
    [challenge |-> challenge, challengeSerialized |-> TokenChallenge_serialize(challenge),
     tokenKey |-> tokenKey, maxAge |-> maxAge]

NewTokenPayload(tokenType, nonce, context, keyId) ==
    [tokenType |-> tokenType, nonce |-> nonce, context |-> context, keyId |-> keyId]

\* u16 type | nonce | context | keyId
TokenPayload_serialize(p) ==
    FromBytes(<<p.tokenType \div 256, p.tokenType % 256>>
              \o View(p.nonce) \o View(p.context) \o View(p.keyId))

NewToken(tokenType, payload, authenticator) ==
    [tokenType |-> tokenType, payload |-> payload, authenticator |-> authenticator]

(***************************************************************************)
(* class Issuer                                                            *)
(***************************************************************************)
NewIssuer(name, privateKey, publicKey) ==
    [name |-> name, privateKey |-> privateKey, publicKey |-> publicKey]

Issuer_issue(iss, tokReq) ==
    LET sig == RsaBlindSign(iss.privateKey, tokReq.blindedMsg) IN
    IF ~sig.ok THEN sig ELSE NewTokenResponse(sig.val)

(***************************************************************************)
(* createPrivateToken, verifyToken                                         *)
(***************************************************************************)
createPrivateToken(iss, redemptionContext) ==
    LET rc == IF redemptionContext = NoVal THEN FromBytes(<<>>) ELSE redemptionContext
        tokenChallenge == NewTokenChallenge(TokenTypeValue, iss.name, rc, NoVal)
        publicKeySpki == ExportSpki(iss.publicKey)
    IN  NewPrivateToken(tokenChallenge, publicKeySpki, NoVal)

verifyToken_unchecked(publicKey, token) == token.tokenType = TokenTypeValue

verifyToken(publicKey, token) ==
    RsaPssVerify(publicKey, token.authenticator, TokenPayload_serialize(token.payload))

(***************************************************************************)
(* Inputs of the codec operations: byte strings around the interesting     *)
(* lengths, given as views at offset 0 or inside a larger buffer.          *)
(***************************************************************************)
Body(n, f) == [i \in 1..n |-> (f + i) % 256]

BodyLens == {0, 1, Nk - 1, Nk, Nk + 1, 2 * Nk}

Fills == {0, 7}

\* A view of the bytes s, preceded in its buffer by `pre` and followed by `pad` zero bytes.
Within(pre, s, pad) == [buffer |-> pre \o s \o Zeros(pad), byteOffset |-> Len(pre), length |-> Len(s)]

\* What may precede a view in its buffer: nothing, or earlier data (here a
\* well-formed request header, or other bytes).
Prefixes == {<<>>, <<0, 2, 9>>, <<5>>}

Pads == 0..MaxPad

BodyArrays == {Within(pre, Body(n, f), pad) : pre \in Prefixes, n \in BodyLens, f \in Fills, pad \in Pads}

Headers == {<<>>, <<0>>, <<0, 2>>, <<0, 2, 0>>, <<0, 2, 255>>, <<2, 0, 1>>, <<0, 3, 1>>, <<1, 2, 1>>, <<255, 255, 1>>}

MessageArrays ==
    {Within(pre, h \o Body(n, f), pad) :
        pre \in Prefixes, h \in Headers, n \in {0, Nk - 1, Nk, Nk + 1}, f \in {7}, pad \in Pads}

KeyIds == {0, 1, 255}

(***************************************************************************)
(* The participants.  Issuers hold 2048-bit key pairs (the token type's).  *)
(* The tasks t1, t2 are callers sharing one Client instance; f1, f2 are    *)
(* callers of fetchPublicVerifToken, whose Client is the invocation's own. *)
(***************************************************************************)
Issuers == {"i1", "i2"}

IssuerKeyId(i) == IF i = "i1" THEN 1 ELSE 2

Tasks == {"t1", "t2"}

Fetches == {"f1", "f2"}

Callers == Tasks \cup Fetches

ClientOf_shared(p) == "client"

\* The Client instance caller p calls: fetchPublicVerifToken's is the one it made
\* (const client = new Client()), the tasks' is the instance they share.
ClientOf(p) == IF p \in Fetches THEN p ELSE "client"

Clients == {ClientOf(p) : p \in Callers}

MaxNonce == 1

MaxRand == 1

MaxCalls == 2

\* crypto.getRandomValues(new Uint8Array(32)): the outcomes the model draws from.
Nonce(n) == FromBytes([i \in 1..32 |-> n])

VARIABLES
    codec,      \* the codec operation last applied, with its input and result
    issuer,     \* issuer[i]: the Issuer object [name, privateKey, publicKey]
    finData,    \* finData[c]: Client c's blinding context, NoVal when undefined
    call,       \* call[p]: the async call caller p is suspended in, Idle if none
    ret,        \* the Client call the last step ended, [task, op, res, ...]; NoRet if none
    tokRes,     \* the TokenResponse on its way from an issuer to the tasks (NoVal: none)
    calls,      \* the number of createTokenRequest calls made
    held,       \* held[c]: what the callers of c hold of the createTokenRequest that
                \* completed last on c, [privToken, tokenRequest]; NoVal once a finalize
                \* has returned its Token
    last,       \* last[c]: the call that ended last on c, "overlapped" if another call
                \* on c ended while it ran or was suspended when it ended (history)
    hist        \* what a specification records of the run so far (history), see History

\* Besides what the code keeps (pc and locals), the frame call[p] of a suspended
\* Client call and the record ret of an ended one carry what was the case when the
\* call was made, for the properties to read:
\*   live    this.finData was set                    rsa    blindRSA.finalize was invoked
\*   second  the call that ended last was a finalize early  a createTokenRequest was suspended
\*   by      the issuer of the sequence the call closes (SequenceBy), "" if none
\*   latest  this.finData was the context of the request the callers hold
\*   own     this.finData was the context of the request the calling
\*           fetchPublicVerifToken got from its createTokenRequest
\*   stale   (frames) another call on the Client has ended since this one was made
\*   alone   (ret) the call had the Client to itself
\*   over    (ret of createTokenRequest) the call replaced a live context of another request
\*   input   the tokenInput the call passed to blindRSA.finalize, if that resolved
\*   cleared (ret) the tokenInput of the context the call cleared, NoVal if it cleared none
\*   after   how the finalize that ended last before the call ended (hist.fin)
\*   ctx     (frames) the number of the context the call read (hist.live)
vars == <<codec, issuer, finData, call, ret, tokRes, calls, held, last, hist>>

protoVars == <<issuer, finData, call, ret, tokRes, calls, held, last, hist>>

\* The PrivateTokens handed to createTokenRequest: built by createPrivateToken, or
\* taken from a challenge header (a 4096-bit key in RSASSA-PSS encoding, key bytes
\* that do not parse, key bytes that parse but are no RSA key).
HeaderToken(name, tokenKey) ==
    NewPrivateToken(NewTokenChallenge(TokenTypeValue, name, FromBytes(<<>>), NoVal), tokenKey, NoVal)

BuiltTokens == {createPrivateToken(issuer[i], NoVal) : i \in Issuers}

PrivateTokens ==
    BuiltTokens \cup
    { HeaderToken("x", PssSpki(PublicKey(3, 2 * Nk))),
      HeaderToken("x", FromBytes(<<0>>)),
      HeaderToken("x", FromBytes(<<48, OidRsaPss, 3, 0>>)) }

\* A TokenResponse that answers no request of the model's clients.
ForeignResponse == NewTokenResponse(FromBytes(Zeros(Nk))).val

Idle == [op |-> "none"]

NoRet == [op |-> "none"]

\* What a specification may record of its run (on names what it records, the rest
\* stays as it is initially):
\*   "issued"  issued: the issue calls made, in order, [issuer, tokReq, res]
\*   "fin"     fin[c]: how the finalize that ended last on Client c ended
\*   "ctx"     the blinding contexts, numbered in the order of their assignment to
\*             this.finData: live[c] is the number of the one in c's finData (0: none),
\*             tokens[k] the number of Tokens returned by finalize calls that read
\*             context k (for the blindRSA.finalize inputs or for the payload)
History(on) ==
    [on |-> on, issued |-> <<>>, fin |-> [c \in Clients |-> "none"],
     live |-> [c \in Clients |-> 0], tokens |-> <<>>]

\* issuer i answered tokReq with res.
HistIssued(h, i, tokReq, res) ==
    IF "issued" \in h.on
    THEN [h EXCEPT !.issued = Append(@, [issuer |-> i, tokReq |-> tokReq, res |-> res])]
    ELSE h

\* createTokenRequest assigned a new context to the finData of c.
HistStored(h, c) ==
    IF "ctx" \in h.on
    THEN [h EXCEPT !.tokens = Append(@, 0), !.live[c] = Len(h.tokens) + 1]
    ELSE h

\* A finalize on c ended with outcome; if it returned a Token, it had read the
\* contexts numbered in from, and cleared the finData of c.
HistFinalized(h, c, outcome, from) ==
    LET h1 == IF "fin" \in h.on THEN [h EXCEPT !.fin[c] = outcome] ELSE h
    IN  IF "ctx" \in h.on /\ outcome = "Token"
        THEN [h1 EXCEPT !.tokens = [k \in DOMAIN @ |-> IF k \in from THEN @[k] + 1 ELSE @[k]],
                        !.live[c] = 0]
        ELSE h1

\* c is a new Client().
HistNewClient(h, c) == [h EXCEPT !.fin[c] = "none", !.live[c] = 0]

\* The state after construction of the issuers and clients, in a specification that
\* records `on`.
Start(on) ==
    /\ hist = History(on)
    /\ codec = [op |-> "none"]
    /\ issuer = [i \in Issuers |->
                    NewIssuer(i, PrivateKey(IssuerKeyId(i), Nk), PublicKey(IssuerKeyId(i), Nk))]
    /\ finData = [c \in Clients |-> NoVal]
    /\ call = [p \in Callers |-> Idle]
    /\ ret = NoRet
    /\ tokRes = NoVal
    /\ calls = 0
    /\ held = [c \in Clients |-> NoVal]
    /\ last = [c \in Clients |-> "none"]

Init == Start({})

\* The callers suspended in a call on Client c.
InFlight(c) ==
    {q \in Callers : ClientOf(q) = c /\ call[q].op \in {"createTokenRequest", "finalize"}}

\* The call of p that ends now had Client ClientOf(p) to itself: no other call on it
\* is suspended, and none ended while this one ran (stale).
Alone(p, stale) == InFlight(ClientOf(p)) \ {p} = {} /\ ~stale

\* call, once the Client call of p has ended and p goes on in frame k: the calls
\* still suspended on the same Client have seen another call end.
CallEnds(p, k) ==
    [q \in Callers |->
        IF q = p THEN k
        ELSE IF q \in InFlight(ClientOf(p)) THEN [call[q] EXCEPT !.stale = TRUE]
        ELSE call[q]]

\* Where the caller of a Client call that ended with res goes on: a task is idle
\* again; fetchPublicVerifToken rethrows, sends the request, or returns the Token.
Resume(f, res) ==
    IF f.caller = Idle \/ ~res.ok \/ f.op = "finalize" THEN Idle
    ELSE [op |-> "fetchPublicVerifToken", pc |-> "sendTokenRequest", tokReq |-> res.val]

(***************************************************************************)
(* Client.createTokenRequest(privToken), one action per await point.       *)
(***************************************************************************)
\* The start of the call: draw the nonce, start the digest of the challenge, suspend.
CreateBegin(p, privToken, n, caller) ==
    /\ call' = [call EXCEPT ![p] = [op |-> "createTokenRequest", pc |-> "digest challenge",
                                    privToken |-> privToken, nonce |-> Nonce(n),
                                    caller |-> caller, stale |-> FALSE]]
    /\ ret' = NoRet

\* A task calls createTokenRequest on the shared Client.
CreateCall(p, privToken, n) ==
    /\ call[p] = Idle
    /\ calls < MaxCalls
    /\ calls' = calls + 1
    /\ CreateBegin(p, privToken, n, Idle)
    /\ UNCHANGED <<codec, hist, issuer, finData, tokRes, held, last>>

\* context is there; start the digest of the token key, suspend.
CreateContext(p) ==
    /\ call[p].op = "createTokenRequest"
    /\ call[p].pc = "digest challenge"
    /\ call' = [call EXCEPT ![p] =
                  [op |-> "createTokenRequest", pc |-> "digest key",
                   privToken |-> call[p].privToken, nonce |-> call[p].nonce,
                   context |-> SHA256(call[p].privToken.challengeSerialized),
                   caller |-> call[p].caller, stale |-> call[p].stale]]
    /\ ret' = NoRet
    /\ UNCHANGED <<codec, hist, issuer, finData, tokRes, calls, held, last>>

CreateThrows_clears(p, err) ==
    /\ call' = CallEnds(p, Resume(call[p], err))
    /\ ret' = [task |-> p, op |-> "createTokenRequest", res |-> err, over |-> FALSE]
    /\ last' = [last EXCEPT ![ClientOf(p)] =
                  IF Alone(p, call[p].stale) THEN "createTokenRequest threw" ELSE "overlapped"]
    /\ finData' = [finData EXCEPT ![ClientOf(p)] = NoVal]
    /\ held' = held

\* The call throws err: the promise rejects, this.finData is as it was.
CreateThrows(p, err) ==
    /\ call' = CallEnds(p, Resume(call[p], err))
    /\ ret' = [task |-> p, op |-> "createTokenRequest", res |-> err, over |-> FALSE]
    /\ last' = [last EXCEPT ![ClientOf(p)] =
                  IF Alone(p, call[p].stale) THEN "createTokenRequest threw" ELSE "overlapped"]
    /\ UNCHANGED <<finData, held>>

\* The promise the call awaits (crypto.subtle.digest, blindRSA.blind) rejects: the
\* call rethrows.
CreateRejects(p) ==
    /\ call[p].op = "createTokenRequest"
    /\ call[p].pc \in {"digest challenge", "digest key", "blind"}
    /\ CreateThrows(p, Throw("OperationError"))
    /\ UNCHANGED <<codec, hist, issuer, tokRes, calls>>

\* keyId is there: build the payload and tokenInput, convert the key (which may
\* throw), start importKey, suspend.
CreateKeyId(p) ==
    /\ call[p].op = "createTokenRequest"
    /\ call[p].pc = "digest key"
    /\ LET f == call[p]
           keyId == SHA256(f.privToken.tokenKey)
           tokenPayload == NewTokenPayload(TokenTypeValue, f.nonce, f.context, keyId)
           tokenInput == TokenPayload_serialize(tokenPayload)
           spkiEncoded == convertPSSToEnc(f.privToken.tokenKey)
       IN  IF ~spkiEncoded.ok
           THEN CreateThrows(p, spkiEncoded)
           ELSE /\ call' = [call EXCEPT ![p] =
                              [op |-> "createTokenRequest", pc |-> "importKey",
                               privToken |-> f.privToken,
                               keyId |-> keyId, tokenPayload |-> tokenPayload,
                               tokenInput |-> tokenInput,
                               imported |-> ImportSpki(spkiEncoded.val),
                               caller |-> f.caller, stale |-> f.stale]]
                /\ ret' = NoRet
                /\ UNCHANGED <<finData, held, last>>
    /\ UNCHANGED <<codec, hist, issuer, tokRes, calls>>

\* importKey settled: throw if it rejected, else call blind, suspend.
CreateImported(p) ==
    /\ call[p].op = "createTokenRequest"
    /\ call[p].pc = "importKey"
    /\ LET f == call[p] IN
       IF ~f.imported.ok
       THEN CreateThrows(p, f.imported)
       ELSE /\ call' = [call EXCEPT ![p] =
                          [op |-> "createTokenRequest", pc |-> "blind",
                           privToken |-> f.privToken,
                           keyId |-> f.keyId, tokenPayload |-> f.tokenPayload,
                           tokenInput |-> f.tokenInput, publicKeyIssuer |-> f.imported.val,
                           caller |-> f.caller, stale |-> f.stale]]
            /\ ret' = NoRet
            /\ UNCHANGED <<finData, held, last>>
    /\ UNCHANGED <<codec, hist, issuer, tokRes, calls>>

\* The context createTokenRequest assigns to this.finData.
NewFinData(tokenInput, tokenPayload, inv, tokenRequest, publicKeyIssuer) ==
    [tokenInput |-> tokenInput, tokenPayload |-> tokenPayload, inv |-> inv,
     tokenRequest |-> tokenRequest, publicKeyIssuer |-> publicKeyIssuer]

StoreFinData_keep(old, new) == IF old # NoVal THEN old ELSE new

\* this.finData = {...}: the value of this.finData after the assignment, given its
\* value before and the new context.
StoreFinData(old, new) == new

TokenKeyIdOf_first(keyId) == View(keyId)[1]

\* const tokenKeyId = keyId[keyId.length - 1]
TokenKeyIdOf(keyId) == View(keyId)[keyId.length]

\* blind settled, with the random choice r it made: build the TokenRequest (which may
\* throw), store the context, return.
CreateReturn(p, r) ==
    /\ call[p].op = "createTokenRequest"
    /\ call[p].pc = "blind"
    /\ LET c == ClientOf(p)
           f == call[p]
           blinded == RsaBlind(f.publicKeyIssuer, f.tokenInput, r)
           tokenKeyId == TokenKeyIdOf(f.keyId)
           tokenRequest == NewTokenRequest(tokenKeyId, blinded.blindedMsg)
       IN  IF ~tokenRequest.ok
           THEN CreateThrows(p, tokenRequest) /\ hist' = hist
           ELSE /\ call' = CallEnds(p, Resume(f, tokenRequest))
                /\ hist' = HistStored(hist, c)
                /\ ret' = [task |-> p, op |-> "createTokenRequest", res |-> tokenRequest,
                           over |-> (finData[c] # NoVal
                                     /\ finData[c].tokenRequest # tokenRequest.val)]
                /\ finData' = [finData EXCEPT ![c] =
                                 StoreFinData(finData[c],
                                     NewFinData(f.tokenInput, f.tokenPayload, blinded.inv,
                                                tokenRequest.val, f.publicKeyIssuer))]
                /\ held' = [held EXCEPT ![c] =
                              [privToken |-> f.privToken, tokenRequest |-> tokenRequest.val]]
                /\ last' = [last EXCEPT ![c] =
                              IF Alone(p, f.stale) THEN "createTokenRequest" ELSE "overlapped"]
    /\ UNCHANGED <<codec, issuer, tokRes, calls>>

(***************************************************************************)
(* Issuer.issue(tokReq): a task sends the request that the latest          *)
(* createTokenRequest returned to the issuer its PrivateToken names; the   *)
(* response is on its way back.                                            *)
(***************************************************************************)
IssuerAfterIssue_rekeyed(iss, tokReq) ==
    [iss EXCEPT !.privateKey = PrivateKey((iss.privateKey.id % 3) + 1, iss.privateKey.kLen)]

\* The Issuer object after issue(tokReq): the method assigns to no field of it.
IssuerAfterIssue(iss, tokReq) == iss

\* issuer i runs issue(tokReq); the response is on its way back.
IssueRequest(i, tokReq) ==
    LET res == Issuer_issue(issuer[i], tokReq) IN
    /\ res.ok
    /\ tokRes' = res.val
    /\ issuer' = [issuer EXCEPT ![i] = IssuerAfterIssue(issuer[i], tokReq)]
    /\ hist' = HistIssued(hist, i, tokReq, res.val)

Issue(p, i) ==
    /\ call[p] = Idle
    /\ held[ClientOf(p)] # NoVal
    /\ held[ClientOf(p)].privToken.challenge.issuerName = issuer[i].name
    /\ IssueRequest(i, held[ClientOf(p)].tokenRequest)
    /\ ret' = NoRet
    /\ UNCHANGED <<codec, finData, call, calls, held, last>>

(***************************************************************************)
(* Client.finalize(t)                                                      *)
(***************************************************************************)
NoPendingRequest_never(fd) == FALSE

NoPendingRequest_inverted(fd) == fd # NoVal

\* if (!this.finData)

NoPendingRequest(fd) == fd = NoVal

\* The issuer the sequence createTokenRequest, issue, finalize(t) is run with, "" if
\* this finalize(t) does not end such a sequence: createTokenRequest, given the
\* PrivateToken built from that issuer, was the last call to end on the Client and ran
\* alone, no call is suspended on the Client, and t is that issuer's response to the
\* request returned.
SequenceBy(c, t) ==
    LET is == {i \in Issuers :
                  /\ last[c] = "createTokenRequest"
                  /\ InFlight(c) = {}
                  /\ held[c] # NoVal
                  /\ held[c].privToken = createPrivateToken(issuer[i], NoVal)
                  /\ Issuer_issue(issuer[i], held[c].tokenRequest) = Ok(t)}
    IN  IF is = {} THEN "" ELSE CHOOSE i \in is : TRUE

\* The start of the call: throw if there is no context; else read publicKeyIssuer,
\* tokenInput and inv from this.finData (a TypeError if it is undefined), call
\* blindRSA.finalize with them and t.blindSig, suspend.
FinalizeBegin(p, t, caller) ==
    LET c == ClientOf(p)
        fd == finData[c]
        second == last[c] = "finalize"
        early == \E q \in InFlight(c) : call[q].op = "createTokenRequest"
        promise == IF fd = NoVal THEN Throw("TypeError")
                   ELSE RsaFinalize(fd.publicKeyIssuer, fd.tokenInput, t.blindSig, fd.inv)
    IN  IF NoPendingRequest(fd)
        THEN /\ call' = CallEnds(p, Idle)
             /\ ret' = [task |-> p, op |-> "finalize", res |-> Throw(ErrNoPendingRequest),
                        live |-> fd # NoVal, rsa |-> FALSE, second |-> second,
                        early |-> early, alone |-> Alone(p, FALSE), by |-> SequenceBy(c, t),
                        latest |-> FALSE, own |-> FALSE, input |-> NoVal,
                        cleared |-> NoVal, after |-> hist.fin[c]]
             /\ last' = [last EXCEPT ![c] =
                           IF Alone(p, FALSE) THEN "finalize" ELSE "overlapped"]
             /\ hist' = HistFinalized(hist, c, "NoPendingRequest", {})
        ELSE /\ call' = [call EXCEPT ![p] =
                           [op |-> "finalize", pc |-> "blindRSA.finalize",
                            authenticator |-> promise,
                            live |-> fd # NoVal, second |-> second, early |-> early,
                            by |-> SequenceBy(c, t),
                            latest |-> (fd # NoVal /\ held[c] # NoVal
                                        /\ fd.tokenRequest = held[c].tokenRequest),
                            own |-> (fd # NoVal /\ caller # Idle
                                     /\ fd.tokenRequest = caller.tokReq),
                            input |-> IF promise.ok THEN fd.tokenInput ELSE NoVal,
                            after |-> hist.fin[c], ctx |-> hist.live[c],
                            caller |-> caller, stale |-> FALSE]]
             /\ ret' = NoRet
             /\ last' = last
             /\ hist' = hist

\* A task calls finalize on the shared Client with a response it was handed.
FinalizeCall(p, t) ==
    /\ call[p] = Idle
    /\ FinalizeBegin(p, t, Idle)
    /\ tokRes' = IF t = tokRes THEN NoVal ELSE tokRes
    /\ UNCHANGED <<codec, issuer, finData, calls, held>>

\* this.finData = undefined
ClearFinData(fd) == NoVal

\* blindRSA.finalize settled: rethrow if it rejected; else read
\* this.finData.tokenPayload (a TypeError if finData is undefined by now), build the
\* Token, clear the context, return.
FinalizeReturn(p) ==
    /\ call[p].op = "finalize"
    /\ LET c == ClientOf(p)
           f == call[p]
           fd == finData[c]
           res == IF ~f.authenticator.ok THEN f.authenticator
                  ELSE IF fd = NoVal THEN Throw("TypeError")
                  ELSE Ok(NewToken(TokenTypeValue, fd.tokenPayload, f.authenticator.val))
       IN  /\ call' = CallEnds(p, Resume(f, res))
           /\ ret' = [task |-> p, op |-> "finalize", res |-> res,
                      live |-> f.live, rsa |-> TRUE, second |-> f.second, early |-> f.early,
                      alone |-> Alone(p, f.stale), by |-> f.by,
                      latest |-> f.latest, own |-> f.own, input |-> f.input,
                      cleared |-> IF res.ok THEN fd.tokenInput ELSE NoVal,
                      after |-> f.after]
           /\ hist' = HistFinalized(hist, c, IF res.ok THEN "Token" ELSE "failed",
                                    {f.ctx, hist.live[c]})
           /\ finData' = IF res.ok THEN [finData EXCEPT ![c] = ClearFinData(fd)] ELSE finData
           /\ held' = IF res.ok THEN [held EXCEPT ![c] = NoVal] ELSE held
           /\ last' = [last EXCEPT ![c] =
                         IF Alone(p, f.stale) THEN "finalize" ELSE "overlapped"]
    /\ UNCHANGED <<codec, issuer, tokRes, calls>>

\* The responses a task may pass to finalize.
Responses == {ForeignResponse} \cup (IF tokRes = NoVal THEN {} ELSE {tokRes})

Next ==
    \/ \E p \in Tasks, pt \in PrivateTokens, n \in 1..MaxNonce : CreateCall(p, pt, n)
    \/ \E p \in Tasks : CreateContext(p)
    \/ \E p \in Tasks : CreateKeyId(p)
    \/ \E p \in Tasks : CreateImported(p)
    \/ \E p \in Tasks : CreateRejects(p)
    \/ \E p \in Tasks, r \in 1..MaxRand : CreateReturn(p, r)
    \/ \E p \in Tasks, i \in Issuers : Issue(p, i)
    \/ \E p \in Tasks, t \in Responses : FinalizeCall(p, t)
    \/ \E p \in Tasks : FinalizeReturn(p)

Spec == Init /\ [][Next]_vars

\* The same tasks and operations, with the contexts stored numbered and the Tokens
\* built from each counted.
SpecOverlap == Start({"ctx"}) /\ [][Next]_vars

(***************************************************************************)
(* One caller using one Client instance over and over, each call awaited   *)
(* before the next; how each finalize ended is recorded.                   *)
(***************************************************************************)
Sequential == {"t1"}

ReuseNext ==
    \/ \E p \in Sequential, pt \in PrivateTokens, n \in 1..MaxNonce : CreateCall(p, pt, n)
    \/ \E p \in Sequential : CreateContext(p)
    \/ \E p \in Sequential : CreateKeyId(p)
    \/ \E p \in Sequential : CreateImported(p)
    \/ \E p \in Sequential : CreateRejects(p)
    \/ \E p \in Sequential, r \in 1..MaxRand : CreateReturn(p, r)
    \/ \E p \in Sequential, i \in Issuers : Issue(p, i)
    \/ \E p \in Sequential, t \in Responses : FinalizeCall(p, t)
    \/ \E p \in Sequential : FinalizeReturn(p)

SpecReuse == Start({"fin"}) /\ [][ReuseNext]_vars

(***************************************************************************)
(* fetchPublicVerifToken(pt), one action per await point; the steps of     *)
(* createTokenRequest and finalize are the Client's, above.                *)
(***************************************************************************)
\* The call: start getIssuerUrl, suspend.
FetchCall(p, pt) ==
    /\ call[p] = Idle
    /\ calls < MaxCalls
    /\ calls' = calls + 1
    /\ call' = [call EXCEPT ![p] = [op |-> "fetchPublicVerifToken", pc |-> "getIssuerUrl",
                                    privToken |-> pt]]
    /\ ret' = NoRet
    /\ UNCHANGED <<codec, hist, issuer, finData, tokRes, held, last>>

\* getIssuerUrl resolved: new Client(), call createTokenRequest on it.
FetchIssuerUrl(p, n) ==
    /\ call[p].op = "fetchPublicVerifToken"
    /\ call[p].pc = "getIssuerUrl"
    /\ finData' = [finData EXCEPT ![ClientOf(p)] = NoVal]
    /\ held' = [held EXCEPT ![ClientOf(p)] = NoVal]
    /\ last' = [last EXCEPT ![ClientOf(p)] = "none"]
    /\ hist' = HistNewClient(hist, ClientOf(p))
    /\ CreateBegin(p, call[p].privToken, n, [op |-> "fetchPublicVerifToken"])
    /\ UNCHANGED <<codec, issuer, tokRes, calls>>

\* getIssuerUrl or sendTokenRequest rejected: fetchPublicVerifToken rethrows.
FetchRejects(p) ==
    /\ call[p].op = "fetchPublicVerifToken"
    /\ call' = [call EXCEPT ![p] = Idle]
    /\ ret' = NoRet
    /\ UNCHANGED <<codec, hist, issuer, finData, tokRes, calls, held, last>>

\* What sendTokenRequest resolves with: the response of the issuer the request
\* reached, or of someone else ("other").
Received(tokReq, i) ==
    IF i \in Issuers THEN Issuer_issue(issuer[i], tokReq) ELSE Ok(ForeignResponse)

\* sendTokenRequest resolved: call finalize on the invocation's Client with tokRes.
FetchSend(p, i) ==
    /\ call[p].op = "fetchPublicVerifToken"
    /\ call[p].pc = "sendTokenRequest"
    /\ Received(call[p].tokReq, i).ok
    /\ FinalizeBegin(p, Received(call[p].tokReq, i).val,
                     [op |-> "fetchPublicVerifToken", tokReq |-> call[p].tokReq])
    /\ UNCHANGED <<codec, issuer, finData, tokRes, calls, held>>

MaxFetchNonce == 2

FetchNext ==
    \/ \E p \in Fetches, pt \in PrivateTokens : FetchCall(p, pt)
    \/ \E p \in Fetches, n \in 1..MaxFetchNonce : FetchIssuerUrl(p, n)
    \/ \E p \in Fetches : FetchRejects(p)
    \/ \E p \in Fetches : CreateContext(p)
    \/ \E p \in Fetches : CreateKeyId(p)
    \/ \E p \in Fetches : CreateImported(p)
    \/ \E p \in Fetches : CreateRejects(p)
    \/ \E p \in Fetches, r \in 1..MaxRand : CreateReturn(p, r)
    \/ \E p \in Fetches, i \in Issuers \cup {"other"} : FetchSend(p, i)
    \/ \E p \in Fetches : FinalizeReturn(p)

SpecFetch == Init /\ [][FetchNext]_vars

(***************************************************************************)
(* Issuer.issue called directly, with any TokenRequest, any number of      *)
(* times up to MaxIssued; the calls are recorded.                          *)
(***************************************************************************)
MaxIssued == 3

\* The blinded messages sent: two contents, the second also as a view at an offset
\* of its buffer.
IssuerMsgs ==
    {Within(<<>>, Body(Nk, 0), 0), Within(<<>>, Body(Nk, 7), 0), Within(<<5>>, Body(Nk, 7), 0)}

IssueCall(i, k, a) ==
    /\ Len(hist.issued) < MaxIssued
    /\ NewTokenRequest(k, a).ok
    /\ IssueRequest(i, NewTokenRequest(k, a).val)
    /\ ret' = NoRet
    /\ UNCHANGED <<codec, finData, call, calls, held, last>>

IssuerNext == \E i \in Issuers, k \in {0, 255}, a \in IssuerMsgs : IssueCall(i, k, a)

SpecIssuer == Start({"issued"}) /\ [][IssuerNext]_vars

(***************************************************************************)
(* The codec operations applied to the inputs above.                       *)
(***************************************************************************)
CodecNewTokenRequest ==
    /\ \E k \in KeyIds, a \in BodyArrays :
        codec' = [op |-> "new TokenRequest", tokenKeyId |-> k, bytes |-> a,
                  res |-> NewTokenRequest(k, a)]
    /\ UNCHANGED protoVars

CodecNewTokenResponse ==
    /\ \E a \in BodyArrays :
        codec' = [op |-> "new TokenResponse", bytes |-> a, res |-> NewTokenResponse(a)]
    /\ UNCHANGED protoVars

CodecRequestDeserialize ==
    /\ \E a \in MessageArrays :
        codec' = [op |-> "TokenRequest.deserialize", bytes |-> a,
                  res |-> TokenRequest_deserialize(a)]
    /\ UNCHANGED protoVars

CodecResponseDeserialize ==
    /\ \E a \in BodyArrays :
        codec' = [op |-> "TokenResponse.deserialize", bytes |-> a,
                  res |-> TokenResponse_deserialize(a)]
    /\ UNCHANGED protoVars

\* x = new TokenRequest(k, a); TokenRequest.deserialize(x.serialize())
CodecRequestRoundTrip ==
    /\ \E k \in KeyIds, a \in BodyArrays :
        LET x == NewTokenRequest(k, a) IN
        /\ x.ok
        /\ codec' = [op |-> "TokenRequest round trip", x |-> x.val,
                     wire |-> TokenRequest_serialize(x.val),
                     res |-> TokenRequest_deserialize(TokenRequest_serialize(x.val))]
    /\ UNCHANGED protoVars

\* y = new TokenResponse(a); TokenResponse.deserialize(y.serialize())
CodecResponseRoundTrip ==
    /\ \E a \in BodyArrays :
        LET y == NewTokenResponse(a) IN
        /\ y.ok
        /\ codec' = [op |-> "TokenResponse round trip", x |-> y.val,
                     wire |-> TokenResponse_serialize(y.val),
                     res |-> TokenResponse_deserialize(TokenResponse_serialize(y.val))]
    /\ UNCHANGED protoVars

CodecNext ==
    \/ CodecNewTokenRequest
    \/ CodecNewTokenResponse
    \/ CodecRequestDeserialize
    \/ CodecResponseDeserialize
    \/ CodecRequestRoundTrip
    \/ CodecResponseRoundTrip

SpecCodec == Init /\ [][CodecNext]_vars


(***************************************************************************)
(* Properties of the Client protocol (Spec)                                *)
(***************************************************************************)
\* C1: protocol correctness.  Whenever a finalize(t) call ends that closes a sequence
\* createTokenRequest(pt), issue, finalize run on a Client with no other call in
\* between (pt built by createPrivateToken from an issuer, t that issuer's response to
\* the request returned), it returns a Token that verifyToken accepts under the
\* issuer's public key.
C1_ProtocolCorrectness ==
    (ret.op = "finalize" /\ ret.by # "" /\ ret.alone) =>
        (ret.res.ok /\ verifyToken(issuer[ret.by].publicKey, ret.res.val))

C1_SequenceCompleted ==
    /\ ret.op = "finalize" /\ ret.by # "" /\ ret.alone
    /\ ret.res.ok
    /\ calls = 1

\* C2: finalize clears the context unconditionally.  Whenever a finalize call that
\* found a live context ends, having had the Client to itself, the Client has no
\* live context, whether the call returned a Token or threw.
C2_ClearsUnconditionally ==
    (ret.op = "finalize" /\ ret.live /\ ret.alone) => finData[ClientOf(ret.task)] = NoVal

\* C3: one-shot.  A finalize call made when the call that ended last on the Client was
\* a finalize (no createTokenRequest has ended in between) throws
\* 'no token request was created yet.', whatever the first call's outcome was.
C3_SecondFinalizeFails ==
    (ret.op = "finalize" /\ ret.second) => ret.res = Throw(ErrNoPendingRequest)

\* C4: a finalize call on a Client without a live context throws
\* 'no token request was created yet.' before any blind-RSA operation is invoked,
\* returns no Token, and leaves the Client without a context.
C4_NoContextFails ==
    (ret.op = "finalize" /\ ~ret.live) =>
        /\ ret.res = Throw(ErrNoPendingRequest)
        /\ ~ret.rsa
        /\ finData[ClientOf(ret.task)] = NoVal

C4_FinalizeAfterConsumed ==
    /\ ret.op = "finalize" /\ ~ret.live /\ ret.second
    /\ ret.res = Throw(ErrNoPendingRequest)
    /\ calls > 0

\* C5: at most one live context per Client, the latest.  A live context is the one
\* stored by the createTokenRequest that completed last on the Client (that of the
\* request the callers hold), all its fields from that one call; when
\* createTokenRequest returns a request the context is that request's, also if an
\* earlier context was live; and every finalize call that passes the check works on
\* the context of the latest completed createTokenRequest.
C5_LatestContextOnly ==
    LET Coherent(fd) ==
            /\ View(fd.tokenInput) = View(TokenPayload_serialize(fd.tokenPayload))
            /\ fd.tokenRequest.blindedMsg =
                  RsaBlind(fd.publicKeyIssuer, fd.tokenInput, View(fd.inv)[1]).blindedMsg
            /\ fd.inv = RsaBlind(fd.publicKeyIssuer, fd.tokenInput, View(fd.inv)[1]).inv
    IN
    /\ \A c \in Clients :
          finData[c] # NoVal =>
              /\ held[c] # NoVal
              /\ finData[c].tokenRequest = held[c].tokenRequest
              /\ Coherent(finData[c])
    /\ (ret.op = "createTokenRequest" /\ ret.res.ok) =>
          /\ finData[ClientOf(ret.task)] # NoVal
          /\ finData[ClientOf(ret.task)].tokenRequest = ret.res.val
    /\ \A p \in Callers : call[p].op = "finalize" => call[p].latest
    /\ (ret.op = "finalize" /\ ret.rsa) => ret.latest

C5_ContextReplaced ==
    /\ ret.op = "createTokenRequest" /\ ret.res.ok /\ ret.over
    /\ finData[ClientOf(ret.task)].tokenRequest = ret.res.val

C7_FetchOwnsItsContext ==
    /\ \A p \in Fetches :
          /\ call[p].op = "createTokenRequest" => finData[ClientOf(p)] = NoVal
          /\ (call[p].op = "fetchPublicVerifToken" /\ call[p].pc = "sendTokenRequest") =>
                 /\ finData[ClientOf(p)] # NoVal
                 /\ finData[ClientOf(p)].tokenRequest = call[p].tokReq
          /\ call[p].op = "finalize" => (call[p].live /\ call[p].own)
    /\ (ret.op = "finalize" /\ ret.task \in Fetches) =>
          (ret.live /\ ret.own /\ ret.res # Throw(ErrNoPendingRequest))

C7_ConcurrentFetchReturns ==
    /\ ret.op = "finalize" /\ ret.task \in Fetches /\ ret.res.ok
    /\ \E q \in Fetches \ {ret.task} : call[q].op = "finalize"

(***************************************************************************)
(* Properties of the codec (SpecCodec)                                     *)
(***************************************************************************)
\* C8: length invariants.  new TokenRequest with a blinded message of a length other
\* than Nk, and new TokenResponse with a blind signature of a length other than Nk,
\* throw the invalid-size error; every TokenRequest and TokenResponse a constructor
\* or deserialize returned has a body of Nk = 256 bytes.
C8_LengthInvariants ==
    /\ codec.op = "new TokenRequest" =>
          /\ codec.bytes.length # Nk => InvalidLength(codec.res)
          /\ codec.res.ok => Len(View(codec.res.val.blindedMsg)) = Nk
    /\ codec.op = "new TokenResponse" =>
          /\ codec.bytes.length # Nk => InvalidLength(codec.res)
          /\ codec.res.ok => Len(View(codec.res.val.blindSig)) = Nk
    /\ (codec.op = "TokenRequest.deserialize" /\ codec.res.ok) =>
          Len(View(codec.res.val.blindedMsg)) = Nk
    /\ (codec.op = "TokenResponse.deserialize" /\ codec.res.ok) =>
          Len(View(codec.res.val.blindSig)) = Nk

C8_WrongLengthRejected ==
    /\ codec.op = "new TokenRequest"
    /\ codec.bytes.length = Nk + 1
    /\ codec.bytes.byteOffset > 0
    /\ InvalidLength(codec.res)

\* C9: type tag.  TokenRequest.deserialize of a byte string of at least two bytes
\* whose first two bytes, read big-endian, are not 0x0002 throws
\* 'mismatch of token type'.
C9_TypeTagChecked ==
    (/\ codec.op = "TokenRequest.deserialize"
     /\ codec.bytes.length >= 2
     /\ View(codec.bytes)[1] * 256 + View(codec.bytes)[2] # TokenTypeValue)
        => TypeMismatch(codec.res)

\* C10: round trip.  For every TokenRequest x, TokenRequest.deserialize(x.serialize())
\* returns a request with x's tokenType, tokenKeyId and blindedMsg bytes; for every
\* TokenResponse y, TokenResponse.deserialize(y.serialize()) returns a response with
\* y's blindSig bytes.
C10_RoundTrip ==
    /\ codec.op = "TokenRequest round trip" =>
          /\ codec.res.ok
          /\ codec.res.val.tokenType = codec.x.tokenType
          /\ codec.res.val.tokenKeyId = codec.x.tokenKeyId
          /\ View(codec.res.val.blindedMsg) = View(codec.x.blindedMsg)
    /\ codec.op = "TokenResponse round trip" =>
          /\ codec.res.ok
          /\ View(codec.res.val.blindSig) = View(codec.x.blindSig)

\* C11: wire layout.  x.serialize() of a TokenRequest is exactly 3 + Nk = 259 bytes:
\* 0x00 0x02, the tokenKeyId byte, then the Nk bytes of the blinded message;
\* y.serialize() of a TokenResponse is exactly the Nk bytes of the blind signature.
C11_WireLayout ==
    /\ codec.op = "TokenRequest round trip" =>
          /\ codec.wire.length = 3 + Nk
          /\ View(codec.wire) = <<0, 2, codec.x.tokenKeyId>> \o View(codec.x.blindedMsg)
    /\ codec.op = "TokenResponse round trip" =>
          /\ codec.wire.length = Nk
          /\ View(codec.wire) = View(codec.x.blindSig)

\* C18: wrong sizes are detected.  TokenResponse.deserialize of fewer than Nk bytes,
\* and TokenRequest.deserialize of the type id 0x0002, a tokenKeyId byte and fewer
\* than Nk further bytes, throw the invalid-size error.
C18_ShortInputRejected ==
    /\ (codec.op = "TokenResponse.deserialize" /\ codec.bytes.length < Nk) =>
          InvalidLength(codec.res)
    /\ (/\ codec.op = "TokenRequest.deserialize"
        /\ codec.bytes.length >= 3
        /\ codec.bytes.length < 3 + Nk
        /\ View(codec.bytes)[1] * 256 + View(codec.bytes)[2] = TokenTypeValue) =>
          InvalidLength(codec.res)

\* C12: Issuer.issue is deterministic and stateless.  Any two issue calls on the same
\* issuer with the same blinded message bytes return the same blind signature,
\* whichever calls were made before or between them, and after any number of calls
\* every issuer has the name, private key and public key it was constructed with.
C12_IssueDeterministicStateless ==
    /\ \A m, n \in DOMAIN hist.issued :
          (/\ hist.issued[m].issuer = hist.issued[n].issuer
           /\ View(hist.issued[m].tokReq.blindedMsg) = View(hist.issued[n].tokReq.blindedMsg))
          => View(hist.issued[m].res.blindSig) = View(hist.issued[n].res.blindSig)
    /\ \A i \in Issuers :
          issuer[i] = NewIssuer(i, PrivateKey(IssuerKeyId(i), Nk), PublicKey(IssuerKeyId(i), Nk))

\* Witness: an issuer signed the same blinded message twice (once given as a view at an
\* offset of a larger buffer, under another tokenKeyId), a different message in between.
C12_SameMessageAgain ==
    /\ Len(hist.issued) = 3
    /\ hist.issued[1].issuer = hist.issued[3].issuer
    /\ hist.issued[2].issuer = hist.issued[1].issuer
    /\ hist.issued[1].tokReq # hist.issued[3].tokReq
    /\ View(hist.issued[1].tokReq.blindedMsg) = View(hist.issued[3].tokReq.blindedMsg)
    /\ View(hist.issued[2].tokReq.blindedMsg) # View(hist.issued[1].tokReq.blindedMsg)
    /\ hist.issued[2].res # hist.issued[1].res

\* The authenticator bytes a, one byte changed or the last byte cut off.
Altered(a) ==
    {FromBytes([View(a) EXCEPT ![k] = (@ + 1) % 256]) : k \in {1, 2, 3, a.length}}
        \cup {FromBytes(SubSeq(View(a), 1, a.length - 1))}

\* C13: negative verification.  For the Token returned by a finalize that closes a
\* sequence createTokenRequest, issue, finalize, verifyToken returns false under the
\* public key of every other issuer, and returns false under the issuing key once
\* the Token's authenticator is altered.
C13_NegativeVerification ==
    (ret.op = "finalize" /\ ret.by # "" /\ ret.alone /\ ret.res.ok) =>
        /\ \A j \in Issuers \ {ret.by} : verifyToken(issuer[j].publicKey, ret.res.val) = FALSE
        /\ \A a \in Altered(ret.res.val.authenticator) :
              verifyToken(issuer[ret.by].publicKey,
                          NewToken(ret.res.val.tokenType, ret.res.val.payload, a)) = FALSE

\* Witness: such a Token, valid under the issuing key and with alterations of both kinds.
C13_ValidTokenReturned ==
    /\ ret.op = "finalize" /\ ret.by # "" /\ ret.alone /\ ret.res.ok
    /\ verifyToken(issuer[ret.by].publicKey, ret.res.val)
    /\ Issuers \ {ret.by} # {}
    /\ Cardinality(Altered(ret.res.val.authenticator)) = 5

\* C15: a Client stays reusable.  When the finalize that ended last on a Client threw
\* 'no token request was created yet.' or returned a Token, a later sequence
\* createTokenRequest, issue, finalize on the same Client returns a Token that
\* verifyToken accepts under the issuer's public key, and leaves the Client without
\* a context again.
C15_Reusable ==
    (/\ ret.op = "finalize" /\ ret.by # "" /\ ret.alone
     /\ ret.after \in {"NoPendingRequest", "Token"}) =>
        /\ ret.res.ok
        /\ verifyToken(issuer[ret.by].publicKey, ret.res.val)
        /\ finData[ClientOf(ret.task)] = NoVal

\* Witness: the second full cycle on one instance has returned its Token.
C15_SecondCycle ==
    /\ ret.op = "finalize" /\ ret.by # "" /\ ret.alone /\ ret.res.ok
    /\ ret.after = "Token"
    /\ calls = 2

\* C16: a failing createTokenRequest stores nothing.  No step of a createTokenRequest
\* call other than its successful return changes the context of any Client: when the
\* call throws (a digest, the key conversion, the key import, blind or the
\* TokenRequest construction failing), this.finData is
\* what it was; in particular after a call that throws on a Client without a
\* context, the check finalize starts with finds no context.
C16_FailureStoresNothing ==
    [][\A p \in Tasks :
          (/\ call[p].op = "createTokenRequest"
           /\ (call'[p].op # "createTokenRequest" \/ call'[p].pc # call[p].pc)
           /\ ~(ret'.op = "createTokenRequest" /\ ret'.task = p /\ ret'.res.ok))
          => /\ finData' = finData
             /\ (finData[ClientOf(p)] = NoVal => NoPendingRequest(finData'[ClientOf(p)]))]_vars

\* Witness: a createTokenRequest has thrown at the TokenRequest construction while the
\* Client held the context of an earlier request, which is still there.
C16_ThrewWithContextLive ==
    /\ ret.op = "createTokenRequest"
    /\ InvalidLength(ret.res)
    /\ finData[ClientOf(ret.task)] # NoVal
    /\ finData[ClientOf(ret.task)].tokenRequest = held[ClientOf(ret.task)].tokenRequest

\* C17: derived fields.  For the request createTokenRequest(pt) returned and the
\* context it stored: tokenKeyId is the last byte of keyId = SHA-256(pt.tokenKey), the
\* payload's context is SHA-256(pt.challengeSerialized) and its keyId is keyId.  Hence
\* the requests and contexts of two calls given the same PrivateToken, on any two
\* Clients, agree in tokenKeyId, context and keyId.
C17_DerivedFields ==
    LET Created == {c \in Clients : /\ held[c] # NoVal
                                   /\ finData[c] # NoVal
                                   /\ finData[c].tokenRequest = held[c].tokenRequest}
    IN  /\ \A c \in Created :
              LET keyId == SHA256(held[c].privToken.tokenKey) IN
              /\ held[c].tokenRequest.tokenKeyId = View(keyId)[Nid]
              /\ finData[c].tokenPayload.keyId = keyId
              /\ finData[c].tokenPayload.context = SHA256(held[c].privToken.challengeSerialized)
        /\ \A c \in Created, d \in Created :
              held[c].privToken = held[d].privToken =>
                  /\ held[c].tokenRequest.tokenKeyId = held[d].tokenRequest.tokenKeyId
                  /\ finData[c].tokenPayload.keyId = finData[d].tokenPayload.keyId
                  /\ finData[c].tokenPayload.context = finData[d].tokenPayload.context

\* Witness: two Clients hold requests made from the same PrivateToken with different
\* nonces.
C17_SameTokenTwoClients ==
    /\ held["f1"] # NoVal /\ held["f2"] # NoVal
    /\ finData["f1"] # NoVal /\ finData["f2"] # NoVal
    /\ held["f1"].privToken = held["f2"].privToken
    /\ finData["f1"].tokenRequest = held["f1"].tokenRequest
    /\ finData["f2"].tokenRequest = held["f2"].tokenRequest
    /\ finData["f1"].tokenPayload.nonce # finData["f2"].tokenPayload.nonce
    /\ held["f1"].tokenRequest.blindedMsg # held["f2"].tokenRequest.blindedMsg

\* C19: payload and authenticator agree under overlap.  Every Token a finalize call
\* returns carries the TokenPayload whose serialization is the tokenInput the call
\* passed to blindRSA.finalize, and the context the call cleared is the one with that
\* tokenInput, whatever other calls on the Client completed while it was suspended.
C19_PayloadMatchesInput ==
    (ret.op = "finalize" /\ ret.res.ok) =>
        /\ View(TokenPayload_serialize(ret.res.val.payload)) = View(ret.input)
        /\ ret.cleared = ret.input

\* C20: at most one Token per blinding context.  Of every context a completed
\* createTokenRequest stored, at most one finalize call returns a Token built from
\* it (from its publicKeyIssuer, tokenInput and inv, or from its tokenPayload), in
\* every interleaving of the calls on the Client.
C20_AtMostOneToken ==
    \A k \in DOMAIN hist.tokens : hist.tokens[k] <= 1

====
